---- MODULE Spec2Model ----
(***************************************************************************)
(* Model of src/app.py: the Streamlit fee calculator (OAB/RJ + Gemini).    *)
(*                                                                         *)
(* Text is a sequence of one-character strings, so that the string         *)
(* operations of the code (strip, split, replace, "in", float) are         *)
(* computed character by character; the accented letters of the code's    *)
(* fixed strings are written without their accents.  Money is an integer number of         *)
(* centavos (R$ 4000.00 is 400000).  Python's None is the empty tuple and  *)
(* a present value x is the one-element tuple <<x>>.                       *)
(***************************************************************************)
EXTENDS Integers, Sequences, FiniteSets, TLC

VARIABLES
    GEMINI_API_KEY,     \* os.getenv("GEMINI_API_KEY"): None, "" or a key
    CLIENTE_GEMINI,     \* module global set by configurar_gemini() on each run
    valor_causa_input,  \* value of the number_input widget, in centavos
    tipo_acao,          \* value of the selectbox widget
    pc,                 \* position of the script run
    resposta,           \* outcome of cliente.models.generate_content
    partes,             \* resultado_bruto.split("---")
    linhas,             \* partes[0].strip().split('\n')
    idx,                \* number of lines of linhas the for loop has consumed
    linha,              \* loop variable
    chave,              \* local of the loop body (None while unbound)
    valor_str,          \* local of the loop body (None while unbound)
    valores,            \* dict of parsed values
    resultados,         \* what the button handler got back (None or a dict)
    tela                \* what the current run has put on the page

vars == <<GEMINI_API_KEY, CLIENTE_GEMINI, valor_causa_input, tipo_acao, pc,
          resposta, partes, linhas, idx, linha, chave, valor_str, valores,
          resultados, tela>>

None == <<>>
Some(x) == <<x>>

----------------------------------------------------------------------------
(* Python string operations, on sequences of characters.                   *)

\* str.isspace for the characters of the model's alphabet
IsSpace(c) == c \in {" ", "\n", "\t", "\r"}

RECURSIVE LStrip(_)
LStrip(s) ==
    IF s # <<>> /\ IsSpace(Head(s)) THEN LStrip(Tail(s)) ELSE s

RECURSIVE RStrip(_)
RStrip(s) ==
    IF s # <<>> /\ IsSpace(s[Len(s)]) THEN RStrip(SubSeq(s, 1, Len(s) - 1)) ELSE s

\* str.strip()
Strip(s) == RStrip(LStrip(s))

\* s[n:]
Drop(s, n) == SubSeq(s, n + 1, Len(s))

\* s.find(sep): 0 when sep does not occur, else the 1-based index of the
\* leftmost occurrence
RECURSIVE FindFrom(_, _, _)
FindFrom(s, sep, i) ==
    IF i + Len(sep) - 1 > Len(s) THEN 0
    ELSE IF SubSeq(s, i, i + Len(sep) - 1) = sep THEN i
    ELSE FindFrom(s, sep, i + 1)

Find(s, sep) == FindFrom(s, sep, 1)

\* sep in s
Contains(s, sep) == Find(s, sep) # 0

\* s.split(sep), sep non-empty: the leftmost, non-overlapping occurrences
RECURSIVE Split(_, _)
Split(s, sep) ==
    LET p == Find(s, sep)
    IN  IF p = 0 THEN <<s>>
        ELSE <<SubSeq(s, 1, p - 1)>> \o Split(Drop(s, p + Len(sep) - 1), sep)

\* s.replace(old, "")
RECURSIVE Remove(_, _)
Remove(s, old) ==
    LET p == Find(s, old)
    IN  IF p = 0 THEN s
        ELSE SubSeq(s, 1, p - 1) \o Remove(Drop(s, p + Len(old) - 1), old)

\* "\n".join(ls)
RECURSIVE Join(_)
Join(ls) ==
    IF ls = <<>> THEN <<>>
    ELSE IF Len(ls) = 1 THEN ls[1]
    ELSE ls[1] \o <<"\n">> \o Join(Tail(ls))

Digits == {"0", "1", "2", "3", "4", "5", "6", "7", "8", "9"}

DigitVal(c) ==
    CASE c = "0" -> 0 [] c = "1" -> 1 [] c = "2" -> 2 [] c = "3" -> 3
      [] c = "4" -> 4 [] c = "5" -> 5 [] c = "6" -> 6 [] c = "7" -> 7
      [] c = "8" -> 8 [] c = "9" -> 9

AllDigits(s) == \A k \in 1..Len(s) : s[k] \in Digits

RECURSIVE IntOf(_)
IntOf(s) == IF s = <<>> THEN 0 ELSE 10 * IntOf(SubSeq(s, 1, Len(s) - 1)) + DigitVal(s[Len(s)])

\* the fraction digits f as centavos: "5" -> 50, "05" -> 5, "" -> 0
\* (the replies of the model carry at most two decimals)
CentavosOf(f) ==
    IF f = <<>> THEN 0
    ELSE IF Len(f) = 1 THEN 10 * DigitVal(f[1])
    ELSE 10 * DigitVal(f[1]) + DigitVal(f[2])

\* float(s) for s over the model's alphabet (digits, sign, point, comma,
\* letters other than those of an exponent, inf or nan):
\* [ws] [+-] (digits [. [digits]] | . digits) [ws], anything else raises
\* ValueError.  The value is in centavos.
ToFloat(s) ==
    LET t    == Strip(s)
        neg  == t # <<>> /\ Head(t) = "-"
        u    == IF t # <<>> /\ Head(t) \in {"-", "+"} THEN Tail(t) ELSE t
        p    == Find(u, <<".">>)
        int  == IF p = 0 THEN u ELSE SubSeq(u, 1, p - 1)
        frac == IF p = 0 THEN <<>> ELSE Drop(u, p)
        ok   == /\ AllDigits(int)
                /\ AllDigits(frac)
                /\ Len(int) + Len(frac) > 0
        mag  == 100 * IntOf(int) + CentavosOf(frac)
    IN  IF ok THEN [exc |-> "nenhuma", val |-> IF neg THEN 0 - mag ELSE mag]
        ELSE [exc |-> "ValueError", val |-> 0]

Max(a, b) == IF a >= b THEN a ELSE b

----------------------------------------------------------------------------
(* Inputs.                                                                 *)

\* most lines of values a reply of the model carries before its tail
MaxLinhas == 2

\* the options of the selectbox the model exercises
TiposAcao == {"Familia (Divorcio Consensual)", "Outro"}

\* widget values, in centavos: -R$ 1000, R$ 0 and R$ 50 are below the
\* widget's minimum and reach the script only from a client that does not
\* enforce it; R$ 10000 is the widget's default
ValoresCausa == {0 - 100000, 0, 5000, 1000000, 3000000, 5000000}

ValorInicial == 1000000

TipoInicial == "Familia (Divorcio Consensual)"

\* what os.getenv can give: None (unset), the empty string, a key
ChavesAmbiente == {None, Some(""), Some("chave")}

MINIMO == <<"M", "I", "N", "I", "M", "O">>
MEDIO == <<"M", "E", "D", "I", "O">>
MAXIMO == <<"M", "A", "X", "I", "M", "O">>
DELIM == <<"-", "-", "-">>
ROTULO == <<"J", "U", "S", "T", "I", "F", "I", "C", "A", "T", "I", "V", "A", ":">>
DOISPONTOS == <<":">>
NL == <<"\n">>

\* the fixed strings of lines 142 and 160, kept as one token each
SEM_JUSTIFICATIVA == <<"Nao foi possivel gerar a justificativa da IA.">>
FALHA_COMUNICACAO == <<"Falha na comunicacao com a IA. Calculo baseado apenas em regras simples internas.">>

\* lines the service may put in the values segment:
\*   MINIMO: 4000.00 | MEDIO: 6,500.00 | MAXIMO: 9000. | MINIMO: abc |
\*   MEDIO: 1:2 | MINIMO: R$ 2 500 | MAXIMO: -5 | texto
Linhas == {
    <<"M", "I", "N", "I", "M", "O", ":", " ", "4", "0", "0", "0", ".", "0", "0">>,
    <<"M", "E", "D", "I", "O", ":", " ", "6", ",", "5", "0", "0", ".", "0", "0">>,
    <<"M", "A", "X", "I", "M", "O", ":", " ", "9", "0", "0", "0", ".">>,
    <<"M", "I", "N", "I", "M", "O", ":", " ", "a", "b", "c">>,
    <<"M", "E", "D", "I", "O", ":", " ", "1", ":", "2">>,
    <<"M", "I", "N", "I", "M", "O", ":", " ", "R", "$", " ", "2", " ", "5", "0", "0">>,
    <<"M", "A", "X", "I", "M", "O", ":", " ", "-", "5">>,
    <<"t", "e", "x", "t", "o">> }

\* what follows the lines of values: nothing, a delimiter and a
\* justification, a justification that itself holds the delimiter, the bare
\* delimiter
Caudas == {
    <<>>,
    <<"\n", "-", "-", "-", "\n", "J", "U", "S", "T", "I", "F", "I", "C", "A", "T", "I", "V", "A", ":", " ", "o", "k">>,
    <<"\n", "-", "-", "-", "\n", "J", "U", "S", "T", "I", "F", "I", "C", "A", "T", "I", "V", "A", ":", " ", "a", "-", "-", "-", "b">>,
    <<"-", "-", "-">> }

\* response.text of a successful call
Respostas ==
    { Join(ls) \o c : ls \in UNION { [1..n -> Linhas] : n \in 0..MaxLinhas },
                      c \in Caudas }

----------------------------------------------------------------------------
(* The code.                                                               *)

\* Python truthiness of an optional string: None and "" are falsy
Truthy(x) == x # None /\ x # Some("")

\* configurar_gemini(): the client (None or a client) and what it reports.
\* ctor_ok: whether genai.Client(api_key=...) returns rather than raises.
configurar_gemini_sem_teste(key, ctor_ok) ==
    [cliente |-> Some("client"), msgs |-> {}]

configurar_gemini(key, ctor_ok) ==
    IF ~Truthy(key) THEN [cliente |-> None, msgs |-> {"erro_chave"}]
    ELSE IF ctor_ok THEN [cliente |-> Some("client"), msgs |-> {}]
    ELSE [cliente |-> None, msgs |-> {"erro_cliente"}]

Tabela_Pisos_OABRJ ==
    [t \in {"Civel Comum (Conhecimento)", "Familia (Divorcio Consensual)",
            "Trabalhista (Reclamante)", "Previdenciario (Administrativo)",
            "Imobiliario (Acoes Possessorias/Reais)",
            "Criminal (Defesa em Rito Sumario)",
            "Tributario (Judicial/Execucao Fiscal)",
            "Empresarial (Elaboracao de Contrato Social)", "Outro"} |->
        CASE t = "Civel Comum (Conhecimento)" -> 650000
          [] t = "Familia (Divorcio Consensual)" -> 400000
          [] t = "Trabalhista (Reclamante)" -> 300000
          [] t = "Previdenciario (Administrativo)" -> 250000
          [] t = "Imobiliario (Acoes Possessorias/Reais)" -> 700000
          [] t = "Criminal (Defesa em Rito Sumario)" -> 500000
          [] t = "Tributario (Judicial/Execucao Fiscal)" -> 800000
          [] t = "Empresarial (Elaboracao de Contrato Social)" -> 450000
          [] t = "Outro" -> 300000]

\* Tabela_Pisos_OABRJ.get(tipo_acao, 3000.00)
piso_fixo(tipo) ==
    IF tipo \in DOMAIN Tabela_Pisos_OABRJ THEN Tabela_Pisos_OABRJ[tipo] ELSE 300000

\* 0.20 * valor_causa
percentual_oab(valor_causa) == (20 * valor_causa) \div 100

obter_valor_minimo_oabrj(tipo, valor_causa) ==
    Max(piso_fixo(tipo), percentual_oab(valor_causa) \div 2)

\* valor_causa * percentual_base
calculo_base(valor_causa) == (valor_causa * 20) \div 100

calculo_base_sem_piso(tipo, valor_causa) == calculo_base(valor_causa)

calculo_base_ajustado(tipo, valor_causa) ==
    Max(calculo_base(valor_causa), obter_valor_minimo_oabrj(tipo, valor_causa))

\* the test of line 257
ValorInvalido_sem_teste(valor) == FALSE

ValorInvalido(valor) == valor < 10000

\* dict.get(k), and dict[k] = v
Get(d, k) == IF k \in DOMAIN d THEN Some(d[k]) ELSE None

Put(d, k, v) == [x \in DOMAIN d \cup {k} |-> IF x = k THEN v ELSE d[x]]

DictVazio == [x \in {} |-> 0]

\* the body of the for loop of line 118 on one line, up to the handlers:
\* exc is what the try block raised, liga whether chave and valor_str were
\* bound by the unpacking of line 121, grava whether line 132 ran
CorpoLinha(l) ==
    IF ~Contains(l, DOISPONTOS)
    THEN [exc |-> "nenhuma", liga |-> FALSE, chave |-> <<>>, valor_str |-> <<>>,
          grava |-> FALSE, chave_limpa |-> <<>>, valor_numerico |-> 0]
    ELSE LET ps == Split(l, DOISPONTOS)
         IN  IF Len(ps) # 2
             THEN [exc |-> "ValueError", liga |-> FALSE, chave |-> <<>>,
                   valor_str |-> <<>>, grava |-> FALSE, chave_limpa |-> <<>>,
                   valor_numerico |-> 0]
             ELSE LET valor_para_float == Remove(Remove(Strip(ps[2]), <<"R", "$">>), <<" ">>)
                      f == ToFloat(valor_para_float)
                  IN  [exc |-> f.exc, liga |-> TRUE, chave |-> ps[1],
                       valor_str |-> ps[2],
                       grava |-> f.exc = "nenhuma" /\ f.val >= 0,
                       chave_limpa |-> Strip(ps[1]), valor_numerico |-> f.val]

\* the handlers of lines 134 and 138 catch every exception of the try block
CapturadaNaLinha_nunca(exc) == FALSE

CapturadaNaLinha(exc) == exc \in {"ValueError", "Exception"}

\* what the handlers do after printing: continue with the next line
AposExcecao_break == "break"

AposExcecao == "continue"

\* the for loop of lines 116-140 as a whole, from line k of ls with the dict
\* vs: the dict it leaves, and whether an exception left the loop
RECURSIVE Percorrer(_, _, _)
Percorrer(ls, k, vs) ==
    IF k > Len(ls) THEN [escapou |-> FALSE, valores |-> vs]
    ELSE LET c == CorpoLinha(ls[k])
             vs2 == IF c.grava THEN Put(vs, c.chave_limpa, c.valor_numerico) ELSE vs
         IN  IF c.exc = "nenhuma" THEN Percorrer(ls, k + 1, vs2)
             ELSE IF ~CapturadaNaLinha(c.exc) THEN [escapou |-> TRUE, valores |-> vs2]
             ELSE IF AposExcecao = "continue" THEN Percorrer(ls, k + 1, vs2)
             ELSE [escapou |-> FALSE, valores |-> vs2]

ValoresDe(ls) == Percorrer(ls, 1, DictVazio)

\* the justification of line 142
Justificativa(ps) ==
    IF Len(ps) > 1 THEN Strip(Remove(ps[2], ROTULO)) ELSE SEM_JUSTIFICATIVA

\* the dict of lines 144-151
Estimativa(tipo, valor_causa, vs, ps) ==
    [piso_oabrj |-> obter_valor_minimo_oabrj(tipo, valor_causa),
     base |-> calculo_base_ajustado(tipo, valor_causa),
     minimo |-> Get(vs, MINIMO), medio |-> Get(vs, MEDIO),
     maximo |-> Get(vs, MAXIMO), justificativa |-> Justificativa(ps)]

\* the dict of lines 158-160
EstimativaDeFalha(tipo, valor_causa) ==
    [piso_oabrj |-> obter_valor_minimo_oabrj(tipo, valor_causa),
     base |-> calculo_base_ajustado(tipo, valor_causa),
     minimo |-> None, medio |-> None, maximo |-> None,
     justificativa |-> FALHA_COMUNICACAO]

----------------------------------------------------------------------------
(* The script.  Streamlit runs it from the top on every interaction; a run *)
(* blocks in generate_content until the service answers.                   *)

SemResposta == [tipo |-> "nenhuma", text |-> <<>>]

Parado == pc \in {"ocioso", "concluido"}

\* the top of a run: line 216, with the page and the locals of the last run
\* gone
InicioDaRun(ctor_ok) ==
    /\ CLIENTE_GEMINI' = configurar_gemini(GEMINI_API_KEY, ctor_ok).cliente
    /\ resposta' = SemResposta
    /\ partes' = <<>>
    /\ linhas' = <<>>
    /\ idx' = 0
    /\ linha' = None
    /\ chave' = None
    /\ valor_str' = None
    /\ valores' = DictVazio
    /\ UNCHANGED GEMINI_API_KEY

MsgsConfig(ctor_ok) == configurar_gemini(GEMINI_API_KEY, ctor_ok).msgs

Init ==
    /\ GEMINI_API_KEY \in ChavesAmbiente
    /\ \E ctor_ok \in BOOLEAN :
         /\ CLIENTE_GEMINI = configurar_gemini(GEMINI_API_KEY, ctor_ok).cliente
         /\ tela = configurar_gemini(GEMINI_API_KEY, ctor_ok).msgs
    /\ valor_causa_input = ValorInicial
    /\ tipo_acao = TipoInicial
    /\ pc = "ocioso"
    /\ resposta = SemResposta
    /\ partes = <<>>
    /\ linhas = <<>>
    /\ idx = 0
    /\ linha = None
    /\ chave = None
    /\ valor_str = None
    /\ valores = DictVazio
    /\ resultados = None

\* the user changes the number_input: a run with the button not pressed
AlterarValorCausa(v, ctor_ok) ==
    /\ Parado
    /\ v # valor_causa_input
    /\ InicioDaRun(ctor_ok)
    /\ valor_causa_input' = v
    /\ tipo_acao' = tipo_acao
    /\ resultados' = None
    /\ tela' = MsgsConfig(ctor_ok)
    /\ pc' = "ocioso"

\* the user changes the selectbox: a run with the button not pressed
AlterarTipoAcao(t, ctor_ok) ==
    /\ Parado
    /\ t # tipo_acao
    /\ InicioDaRun(ctor_ok)
    /\ tipo_acao' = t
    /\ valor_causa_input' = valor_causa_input
    /\ resultados' = None
    /\ tela' = MsgsConfig(ctor_ok)
    /\ pc' = "ocioso"

\* the button, lines 256-258
ClicarValorInvalido(ctor_ok) ==
    /\ Parado
    /\ ValorInvalido(valor_causa_input)
    /\ InicioDaRun(ctor_ok)
    /\ UNCHANGED <<valor_causa_input, tipo_acao>>
    /\ resultados' = None
    /\ tela' = MsgsConfig(ctor_ok) \cup {"erro_valor"}
    /\ pc' = "concluido"

\* the button, lines 259-260
ClicarSemCliente(ctor_ok) ==
    /\ Parado
    /\ ~ValorInvalido(valor_causa_input)
    /\ InicioDaRun(ctor_ok)
    /\ CLIENTE_GEMINI' = None
    /\ UNCHANGED <<valor_causa_input, tipo_acao>>
    /\ resultados' = None
    /\ tela' = MsgsConfig(ctor_ok) \cup {"aviso_cliente"}
    /\ pc' = "concluido"

\* the button, lines 261-271, into calcular_honorarios_com_gemini up to the
\* call of line 106 (line 62 returns None without a client, and the handler
\* then shows nothing)
ClicarCalcular(ctor_ok) ==
    /\ Parado
    /\ ~ValorInvalido(valor_causa_input)
    /\ InicioDaRun(ctor_ok)
    /\ CLIENTE_GEMINI' # None
    /\ UNCHANGED <<valor_causa_input, tipo_acao>>
    /\ resultados' = None
    /\ tela' = MsgsConfig(ctor_ok)
    /\ pc' = IF CLIENTE_GEMINI' = None THEN "concluido" ELSE "chamando"

\* what the handler shows for what calcular_honorarios_com_gemini returned,
\* lines 273-305
Exibir(r) == IF r # None THEN {"sucesso"} ELSE {}

LocaisInalterados == UNCHANGED <<partes, linhas, idx, linha, chave, valor_str, valores>>

AmbienteInalterado ==
    UNCHANGED <<GEMINI_API_KEY, CLIENTE_GEMINI, valor_causa_input, tipo_acao>>

\* generate_content raises APIError: lines 153-155
RespostaAPIError ==
    /\ pc = "chamando"
    /\ resposta' = [tipo |-> "APIError", text |-> <<>>]
    /\ resultados' = None
    /\ tela' = tela \cup {"erro_api"} \cup Exibir(None)
    /\ pc' = "concluido"
    /\ LocaisInalterados
    /\ AmbienteInalterado

\* generate_content raises something that is no APIError (the transport's
\* connection or timeout error): lines 156-160
RespostaOutraFalha ==
    /\ pc = "chamando"
    /\ resposta' = [tipo |-> "Exception", text |-> <<>>]
    /\ resultados' = Some(EstimativaDeFalha(tipo_acao, valor_causa_input))
    /\ tela' = tela \cup {"erro_processamento"} \cup Exibir(resultados')
    /\ pc' = "concluido"
    /\ LocaisInalterados
    /\ AmbienteInalterado

\* the call returns a response whose text is None: line 113 raises
\* AttributeError, lines 156-160
RespostaSemTexto ==
    /\ pc = "chamando"
    /\ resposta' = [tipo |-> "sem_texto", text |-> <<>>]
    /\ resultados' = Some(EstimativaDeFalha(tipo_acao, valor_causa_input))
    /\ tela' = tela \cup {"erro_processamento"} \cup Exibir(resultados')
    /\ pc' = "concluido"
    /\ LocaisInalterados
    /\ AmbienteInalterado

\* the call returns text: lines 113-118, up to the first iteration
RespostaTexto(text) ==
    /\ pc = "chamando"
    /\ resposta' = [tipo |-> "texto", text |-> text]
    /\ partes' = Split(Strip(text), DELIM)
    /\ linhas' = Split(Strip(partes'[1]), NL)
    /\ idx' = 0
    /\ valores' = DictVazio
    /\ pc' = "processando"
    /\ UNCHANGED <<linha, chave, valor_str, resultados, tela>>
    /\ AmbienteInalterado

\* one iteration of the for loop, lines 118-140
ProcessarLinha ==
    /\ pc = "processando"
    /\ idx < Len(linhas)
    /\ LET l == linhas[idx + 1]
           c == CorpoLinha(l)
       IN  /\ linha' = Some(l)
           /\ chave' = IF c.liga THEN Some(c.chave) ELSE chave
           /\ valor_str' = IF c.liga THEN Some(c.valor_str) ELSE valor_str
           /\ valores' = IF c.grava THEN Put(valores, c.chave_limpa, c.valor_numerico)
                         ELSE valores
           /\ IF c.exc = "nenhuma"
              THEN /\ idx' = idx + 1
                   /\ UNCHANGED <<pc, resultados, tela>>
              ELSE IF CapturadaNaLinha(c.exc)
              THEN /\ idx' = IF AposExcecao = "continue" THEN idx + 1 ELSE Len(linhas)
                   /\ UNCHANGED <<pc, resultados, tela>>
              ELSE \* the exception leaves the loop: lines 156-160
                   /\ idx' = idx
                   /\ resultados' = Some(EstimativaDeFalha(tipo_acao, valor_causa_input))
                   /\ tela' = tela \cup {"erro_processamento"} \cup Exibir(resultados')
                   /\ pc' = "concluido"
    /\ UNCHANGED <<resposta, partes, linhas>>
    /\ AmbienteInalterado

\* after the loop: lines 142-151, and the handler's display
Montar ==
    /\ pc = "processando"
    /\ idx = Len(linhas)
    /\ resultados' = Some(Estimativa(tipo_acao, valor_causa_input, valores, partes))
    /\ tela' = tela \cup Exibir(resultados')
    /\ pc' = "concluido"
    /\ UNCHANGED <<resposta>>
    /\ LocaisInalterados
    /\ AmbienteInalterado

Next ==
    \/ \E v \in ValoresCausa, ok \in BOOLEAN : AlterarValorCausa(v, ok)
    \/ \E t \in TiposAcao, ok \in BOOLEAN : AlterarTipoAcao(t, ok)
    \/ \E ok \in BOOLEAN : ClicarValorInvalido(ok)
    \/ \E ok \in BOOLEAN : ClicarSemCliente(ok)
    \/ \E ok \in BOOLEAN : ClicarCalcular(ok)
    \/ RespostaAPIError
    \/ RespostaOutraFalha
    \/ RespostaSemTexto
    \/ \E text \in Respostas : RespostaTexto(text)
    \/ ProcessarLinha
    \/ Montar

Spec == Init /\ [][Next]_vars

----------------------------------------------------------------------------
(* Properties.                                                             *)

Concluido == pc = "concluido"

DeTexto == Concluido /\ resposta.tipo = "texto"

\* s[:s.find(sep)] and s[s.find(sep) + len(sep):], for sep in s
Antes(s, sep) == SubSeq(s, 1, Find(s, sep) - 1)

Depois(s, sep) == Drop(s, Find(s, sep) + Len(sep) - 1)

RemoveAt(ls, i) == SubSeq(ls, 1, i - 1) \o SubSeq(ls, i + 1, Len(ls))

\* a line with a colon whose value does not convert
MalFormada(l) == Contains(l, DOISPONTOS) /\ CorpoLinha(l).exc # "nenhuma"

Opcional(x) == x = None \/ (Len(x) = 1 /\ x[1] \in Nat)

\* C1: whenever the call to the generative service fails, whatever the
\* failure, the error is reported and no estimate is returned (None).
C1_FalhaSemEstimativa ==
    (Concluido /\ resposta.tipo \in {"APIError", "Exception"})
        => /\ resultados = None
           /\ tela \cap {"erro_api", "erro_processamento"} # {}

\* C2: an estimate whose parsed MINIMO is below piso_oabrj is flagged to the
\* user, not shown as a plain success.
C2_MinimoAbaixoDoPisoSinalizado ==
    (/\ Concluido
     /\ resultados # None
     /\ resultados[1].minimo # None
     /\ resultados[1].minimo[1] < resultados[1].piso_oabrj)
        => \E m \in tela : m # "sucesso"

\* C3, as claimed: a line with a colon whose value does not convert leaves
\* its key absent (None) in the result, and every other key has the value it
\* would have without that line.
C3_ChaveAusente ==
    DeTexto =>
        \A i \in 1..Len(linhas) :
            MalFormada(linhas[i]) =>
                /\ Get(valores, Strip(Antes(linhas[i], DOISPONTOS))) = None
                /\ valores = ValoresDe(RemoveAt(linhas, i)).valores

\* C3, amended: a line with a colon whose value does not convert contributes
\* nothing: the dict of values, and the minimo, medio and maximo of the
\* estimate, are those of the reply without that line, wherever the line is.
C3_LinhaMalFormadaNaoContribui ==
    DeTexto =>
        \A i \in 1..Len(linhas) :
            MalFormada(linhas[i]) =>
                LET ref == ValoresDe(RemoveAt(linhas, i))
                IN  /\ ~ref.escapou
                    /\ valores = ref.valores
                    /\ resultados # None
                    /\ resultados[1].minimo = Get(ref.valores, MINIMO)
                    /\ resultados[1].medio = Get(ref.valores, MEDIO)
                    /\ resultados[1].maximo = Get(ref.valores, MAXIMO)

\* a malformed line stands before a line whose value was stored
C3_Witness ==
    /\ DeTexto
    /\ Len(linhas) >= 2
    /\ MalFormada(linhas[1])
    /\ CorpoLinha(linhas[2]).grava
    /\ CorpoLinha(linhas[2]).chave_limpa \in DOMAIN valores

\* C4: for every text of a successful call the processing raises nothing out
\* of the function: the estimate returned carries the locally computed
\* piso_oabrj and base, each of minimo, medio, maximo is a number or None,
\* and no processing error is reported.
C4_RespostaSempreProcessada ==
    /\ pc = "processando" => idx <= Len(linhas)
    /\ DeTexto =>
        /\ resultados # None
        /\ resultados[1].piso_oabrj = obter_valor_minimo_oabrj(tipo_acao, valor_causa_input)
        /\ resultados[1].base >= resultados[1].piso_oabrj
        /\ Opcional(resultados[1].minimo)
        /\ Opcional(resultados[1].medio)
        /\ Opcional(resultados[1].maximo)
        /\ resultados[1].justificativa # FALHA_COMUNICACAO
        /\ tela = {"sucesso"}

\* the empty reply was processed into an estimate
C4_Witness ==
    /\ DeTexto
    /\ resposta.text = <<>>
    /\ resultados # None
    /\ resultados[1].minimo = None

\* C5: generate_content is never invoked, and never answers, with a
\* non-positive case value.
C5_SemChamadaComValorNaoPositivo ==
    (pc \in {"chamando", "processando"} \/ resposta.tipo # "nenhuma")
        => valor_causa_input > 0

\* the button was pressed with a non-positive value and the run ended in the
\* error of line 258
C5_Witness ==
    /\ Concluido
    /\ valor_causa_input <= 0
    /\ "erro_valor" \in tela
    /\ resposta.tipo = "nenhuma"

\* C6: without the credential there is no client, the service is never
\* called, no estimate is produced, and every press of the button ends in a
\* reported error.
C6_SemCredencialBloqueia ==
    ~Truthy(GEMINI_API_KEY) =>
        /\ CLIENTE_GEMINI = None
        /\ Parado
        /\ resposta = SemResposta
        /\ resultados = None
        /\ "erro_chave" \in tela
        /\ "sucesso" \notin tela
        /\ Concluido => tela \cap {"aviso_cliente", "erro_valor"} # {}

\* the button was pressed without the credential, with a valid value
C6_Witness ==
    /\ ~Truthy(GEMINI_API_KEY)
    /\ Concluido
    /\ "aviso_cliente" \in tela

\* C7: in every estimate returned, base is the greater of 20% of valor_causa
\* and piso_oabrj, piso_oabrj is the greater of the table's floor and 10% of
\* valor_causa, and so base >= piso_oabrj.
C7_BaseNaoAbaixoDoPiso ==
    resultados # None =>
        LET r == resultados[1]
            vinte == (20 * valor_causa_input) \div 100
        IN  /\ r.piso_oabrj >= piso_fixo(tipo_acao)
            /\ r.piso_oabrj >= vinte \div 2
            /\ r.piso_oabrj \in {piso_fixo(tipo_acao), vinte \div 2}
            /\ r.base >= vinte
            /\ r.base >= r.piso_oabrj
            /\ r.base \in {vinte, r.piso_oabrj}

\* an estimate from a parsed reply whose base is the floor, above 20% of the
\* case value
C7_Witness ==
    /\ DeTexto
    /\ resultados # None
    /\ resultados[1].base = resultados[1].piso_oabrj
    /\ resultados[1].base > (20 * valor_causa_input) \div 100

\* C8: a line whose value holds separator commas, and is a number without
\* them, is converted and its key is present in the result.
C8_VirgulasRemovidas ==
    DeTexto =>
        \A i \in 1..Len(linhas) :
            LET l == linhas[i]
                ps == Split(l, DOISPONTOS)
                v == Remove(Remove(Remove(Strip(ps[2]), <<"R", "$">>), <<" ">>), <<",">>)
            IN  (/\ Len(ps) = 2
                 /\ Contains(ps[2], <<",">>)
                 /\ ToFloat(v).exc = "nenhuma"
                 /\ ToFloat(v).val >= 0)
                    => Strip(ps[1]) \in DOMAIN valores

\* C9: without '---' the justification is the fixed fallback and the values
\* are parsed from the whole text; with it the reply is split in at most two
\* segments and the justification is all the text after the first '---',
\* without its label and trimmed.
C9_JustificativaPeloDelimitador ==
    DeTexto =>
        LET bruto == Strip(resposta.text)
        IN  /\ resultados # None
            /\ IF ~Contains(bruto, DELIM)
               THEN /\ resultados[1].justificativa = SEM_JUSTIFICATIVA
                    /\ linhas = Split(Strip(bruto), NL)
               ELSE /\ Len(partes) <= 2
                    /\ resultados[1].justificativa =
                           Strip(Remove(Depois(bruto, DELIM), ROTULO))

\* C10: a line with a colon is split on its first colon only: chave is the
\* text before it and valor_str all the text after it, however many colons
\* follow.
C10_DivisaoNoPrimeiroDoisPontos ==
    (linha # None /\ Contains(linha[1], DOISPONTOS))
        => /\ chave = Some(Antes(linha[1], DOISPONTOS))
           /\ valor_str = Some(Depois(linha[1], DOISPONTOS))

====
